---------------------------- MODULE Spec2Model ----------------------------
(***************************************************************************)
(* Drama Catalog API (src/server.js): an express application over a lowdb  *)
(* JSON file.  Every handler awaits db.read() (the whole file replaces     *)
(* db.data), changes db.data in memory and awaits db.write() (the whole    *)
(* of db.data replaces the file).  db is one process-wide handle, and a    *)
(* handler gives up control at each await, so the handlers of concurrent   *)
(* requests interleave at those points and nowhere else.                   *)
(*                                                                         *)
(* A catalog record is a function from its keys to their values; a key the *)
(* JSON document does not carry is not in the function's domain.  Modelled *)
(* keys: id, title, year, created_at, updated_at.  Timestamps are readings *)
(* of a clock that never runs backwards; the ids nanoid makes are fresh,   *)
(* so they are numbered in the order they are made.                        *)
(*                                                                         *)
(* Specifications:                                                         *)
(*   Spec      two request slots, authorised create / delete / detail      *)
(*             requests arriving within one clock reading                  *)
(*   SpecSeq   one request at a time, every route, every key, within one   *)
(*             clock reading                                               *)
(*   SpecTime  one request at a time, every route, the clock advancing,    *)
(*             payloads that carry timestamps                              *)
(*   SpecQuery the list handler applied to snapshots                       *)
(***************************************************************************)
EXTENDS Integers, Sequences, FiniteSets, TLC

VARIABLES
    file,       \* ./data.json: the persisted catalog (dramas)
    data,       \* db.data.dramas: the shared handle's in-memory catalog
    pc,         \* per request slot: where its handler stands
    req,        \* per request slot: the request being handled
    resp,       \* per request slot: the response sent
    buf,        \* per request slot: file content db.read() has fetched
    loc,        \* per request slot: the handler's locals (item, idx/before)
    wq,         \* writes handed to db.write() that have not reached the file
    clock,      \* the reading new Date() gives
    nextId,     \* number of ids nanoid has made
    overlapped, \* history: a request was accepted while another was in flight
    acked,      \* history: ids of created records a 201 acknowledged, less
                \* those a later delete or id-changing update was told to drop
    lastDel,    \* history: the delete that completed last, if no request
                \* completed after it
    qcat,       \* list handler: the snapshot db.read() gave
    qry,        \* list handler: req.query
    qlist,      \* list handler: its local list, filtered and sorted
    qres        \* list handler: the paged result sent

vars == <<file, data, pc, req, resp, buf, loc, wq, clock, nextId, overlapped,
          acked, lastDel, qcat, qry, qlist, qres>>

qvars == <<qcat, qry, qlist, qres>>

(***************************************************************************)
(* Bounds of the model.                                                    *)
(***************************************************************************)
MaxIds == 2

MaxClock == 1

MaxSeedCount == 2

MaxTotal == 30

MaxPage == 3

(***************************************************************************)
(* Configuration and constants of the source.                              *)
(***************************************************************************)
API_KEY == "supersecretkey"

NoHeader == "<absent>"

Keys == {API_KEY, "wrong", NoHeader}

Handlers == {1, 2}

Protected == {"create", "update", "delete", "seed"}

DefaultLimit == 24

DefaultPage == 1

MissingYearLow == 0

MissingYearHigh == 9999

SeedYear == 2024

FutureTime == MaxClock + 1

NoItem == [k \in {} |-> 0]

EmptyBody == [k \in {} |-> 0]

NoResp == [status |-> 0, error |-> "", item |-> NoItem, n |-> 0]

NoReq == [route |-> "none", key |-> NoHeader, id |-> 0, body |-> EmptyBody, count |-> 0]

NoLoc == [item |-> NoItem, n |-> 0]

NoDel == [id |-> 0, n |-> 0]

NoPage == [items |-> << >>, page |-> 0, limit |-> 0, total |-> 0, pages |-> 0]

(***************************************************************************)
(* Helpers on records and catalogs.                                        *)
(***************************************************************************)
Has(r, k) == k \in DOMAIN r

IdsOf(cat) == {cat[i].id : i \in 1..Len(cat)}

Range(s) == {s[i] : i \in 1..Len(s)}

Min(a, b) == IF a <= b THEN a ELSE b

Max(a, b) == IF a >= b THEN a ELSE b

\* Array.prototype.findIndex(d => d.id === id): 1-based, 0 for -1
FindIndex(cat, id) ==
    IF \E i \in 1..Len(cat) : cat[i].id = id
    THEN CHOOSE i \in 1..Len(cat) :
            /\ cat[i].id = id
            /\ \A j \in 1..(i-1) : cat[j].id # id
    ELSE 0

\* a delete that drops only the first record with the id
WithoutFirst(cat, id) ==
    LET i == FindIndex(cat, id)
    IN  IF i = 0 THEN cat ELSE SubSeq(cat, 1, i - 1) \o SubSeq(cat, i + 1, Len(cat))

\* dramas.filter(d => d.id !== id)
WithoutId(cat, id) ==
    LET Keep(d) == d.id # id IN SelectSeq(cat, Keep)

\* an unshift that is left out
NoUnshift(items, cat) == cat

\* dramas.unshift(...items)
Unshift(items, cat) == items \o cat

\* String.prototype.trim on the titles the requests carry
Trim(s) ==
    CASE s = " A " -> "A"
      [] s = "  "  -> ""
      [] OTHER     -> s

\* the record app.post('/api/dramas') builds.  Number(payload.year) ||
\* undefined leaves year undefined for 0 and for no year, and JSON carries
\* no undefined key
NewItem(body, id, now) ==
    LET title == IF Has(body, "title") /\ Trim(body.title) # ""
                 THEN Trim(body.title) ELSE "Untitled"
        base  == [id |-> id, title |-> title, created_at |-> now, updated_at |-> now]
    IN  IF Has(body, "year") /\ body.year # 0
        THEN ("year" :> body.year) @@ base
        ELSE base

\* a merge in which the stored record's keys win over the payload's
MergeKeepingExisting(existing, body, now) ==
    [k \in DOMAIN existing \cup DOMAIN body \cup {"updated_at"} |->
        IF k = "updated_at" THEN now
        ELSE IF k \in DOMAIN existing THEN existing[k]
        ELSE body[k]]

\* { ...existing, ...req.body, updated_at: now }
Merge(existing, body, now) ==
    [k \in DOMAIN existing \cup DOMAIN body \cup {"updated_at"} |->
        IF k = "updated_at" THEN now
        ELSE IF k \in DOMAIN body THEN body[k]
        ELSE existing[k]]

SampleTitle(i) == <<"Sample C-Drama 1", "Sample C-Drama 2", "Sample C-Drama 3">>[((i - 1) % 3) + 1]

\* one element of the samples app.post('/api/seed') makes (titles beyond the
\* third repeat: no claim reads a sample's title)
Sample(i, id, now) ==
    [id |-> id, title |-> SampleTitle(i), year |-> SeedYear,
     created_at |-> now, updated_at |-> now]

\* Array.from({ length: Number(count) }, ...)
Samples(count, firstId, now) ==
    [i \in 1..count |-> Sample(i, firstId + i - 1, now)]

\* a gate that lets a request with no x-api-key header through
RequireKeyOrNone(key) == key = API_KEY \/ key = NoHeader

\* requireKey: key !== API_KEY rejects
RequireKey(key) == key = API_KEY

(***************************************************************************)
(* The requests of a run.                                                  *)
(***************************************************************************)
Req(route, key, id, body, count) ==
    [route |-> route, key |-> key, id |-> id, body |-> body, count |-> count]

CreateBodies ==
    {EmptyBody, ("title" :> " A ") @@ ("year" :> 2020), ("title" :> "  ") @@ ("year" :> 0)}

\* update payloads; the id a payload carries is the first id made
UpdateBodies ==
    {EmptyBody, ("year" :> 2021), ("updated_at" :> FutureTime), ("created_at" :> FutureTime)}
    \cup {("id" :> i) : i \in 1..Min(nextId, 1)}

Requests ==
    {Req("create", k, 0, b, 0) : k \in Keys, b \in CreateBodies}
    \cup {Req("update", k, i, b, 0) : k \in Keys, i \in 1..MaxIds, b \in UpdateBodies}
    \cup {Req("delete", k, i, EmptyBody, 0) : k \in Keys, i \in 1..MaxIds}
    \cup {Req("seed", k, 0, EmptyBody, c) : k \in Keys, c \in 0..MaxSeedCount}
    \cup {Req("detail", k, i, EmptyBody, 0) : k \in Keys, i \in 1..MaxIds}

\* requests whose payload carries no created_at
TimelessRequests == {r \in Requests : ~Has(r.body, "created_at")}

\* authorised create, delete and detail requests
ConcRequests ==
    {r \in Requests : /\ r.key = API_KEY
                      /\ r.route \in {"create", "delete", "detail"}
                      /\ r.body = EmptyBody}

(***************************************************************************)
(* Initial state: the file holds { dramas: [] } (lines 14-17).             *)
(***************************************************************************)
SInit ==
    /\ file = << >>
    /\ data = << >>
    /\ pc = [h \in Handlers |-> "idle"]
    /\ req = [h \in Handlers |-> NoReq]
    /\ resp = [h \in Handlers |-> NoResp]
    /\ buf = [h \in Handlers |-> << >>]
    /\ loc = [h \in Handlers |-> NoLoc]
    /\ wq = << >>
    /\ clock = 0
    /\ nextId = 0
    /\ overlapped = FALSE
    /\ acked = {}
    /\ lastDel = NoDel

QIdle ==
    /\ qcat = << >>
    /\ qry = EmptyBody
    /\ qlist = << >>
    /\ qres = NoPage

Init == SInit /\ QIdle

(***************************************************************************)
(* Steps of the handlers.                                                  *)
(***************************************************************************)
InFlight(h) == pc[h] \notin {"idle", "done"}

\* new Date() advances between two readings
Tick ==
    /\ clock < MaxClock
    /\ clock' = clock + 1
    /\ UNCHANGED <<file, data, pc, req, resp, buf, loc, wq, nextId>>

\* a protected route whose requireKey fails: 401, next() is never called
Reject(h, r) ==
    /\ pc[h] = "idle"
    /\ r.route \in Protected
    /\ ~RequireKey(r.key)
    /\ req' = [req EXCEPT ![h] = r]
    /\ resp' = [resp EXCEPT ![h] =
                  [NoResp EXCEPT !.status = 401, !.error = "Unauthorized"]]
    /\ pc' = [pc EXCEPT ![h] = "done"]
    /\ UNCHANGED <<file, data, buf, loc, wq, clock, nextId>>

\* the handler runs up to its await db.read(); create builds its item first
Accept(h, r) ==
    /\ pc[h] = "idle"
    /\ r.route \in Protected => RequireKey(r.key)
    /\ r.route = "create" => nextId < MaxIds
    /\ req' = [req EXCEPT ![h] = r]
    /\ pc' = [pc EXCEPT ![h] = "reading"]
    /\ IF r.route = "create"
       THEN /\ nextId' = nextId + 1
            /\ loc' = [loc EXCEPT ![h] =
                         [item |-> NewItem(r.body, nextId + 1, clock), n |-> 0]]
       ELSE /\ nextId' = nextId
            /\ loc' = [loc EXCEPT ![h] = NoLoc]
    /\ UNCHANGED <<file, data, resp, buf, wq, clock>>

\* db.read() fetches the file
FileRead(h) ==
    /\ pc[h] = "reading"
    /\ buf' = [buf EXCEPT ![h] = file]
    /\ pc' = [pc EXCEPT ![h] = "loaded"]
    /\ UNCHANGED <<file, data, req, resp, loc, wq, clock, nextId>>

\* db.read() has set db.data; the handler leaves cat in db.data and calls
\* db.write(): db.data is serialised now and replaces the file later
Write(h, cat, l) ==
    /\ data' = cat
    /\ wq' = Append(wq, [h |-> h, cat |-> cat])
    /\ loc' = [loc EXCEPT ![h] = l]
    /\ pc' = [pc EXCEPT ![h] = "writing"]
    /\ buf' = [buf EXCEPT ![h] = << >>]
    /\ UNCHANGED <<file, req, resp, clock>>

\* db.read() has set db.data; the handler responds without a write
Finish(h, rs) ==
    /\ data' = buf[h]
    /\ resp' = [resp EXCEPT ![h] = rs]
    /\ pc' = [pc EXCEPT ![h] = "done"]
    /\ buf' = [buf EXCEPT ![h] = << >>]
    /\ loc' = [loc EXCEPT ![h] = NoLoc]
    /\ UNCHANGED <<file, req, wq, clock, nextId>>

NotFound == [NoResp EXCEPT !.status = 404, !.error = "Not found"]

\* app.get('/api/dramas/:id')
Detail(h) ==
    /\ pc[h] = "loaded"
    /\ req[h].route = "detail"
    /\ LET idx == FindIndex(buf[h], req[h].id)
       IN  IF idx = 0
           THEN Finish(h, NotFound)
           ELSE Finish(h, [NoResp EXCEPT !.status = 200, !.item = buf[h][idx]])

\* app.post('/api/dramas'): unshift(item), write
Create(h) ==
    /\ pc[h] = "loaded"
    /\ req[h].route = "create"
    /\ Write(h, Unshift(<<loc[h].item>>, buf[h]), loc[h])
    /\ UNCHANGED nextId

\* the catalog app.put leaves in db.data when idx is found
Updated(cat, idx, body, now) ==
    [cat EXCEPT ![idx] = Merge(cat[idx], body, now)]

\* app.put('/api/dramas/:id')
Update(h) ==
    /\ pc[h] = "loaded"
    /\ req[h].route = "update"
    /\ LET idx == FindIndex(buf[h], req[h].id)
       IN  IF idx = 0
           THEN Finish(h, NotFound)
           ELSE /\ Write(h, Updated(buf[h], idx, req[h].body, clock),
                         [item |-> NoItem, n |-> idx])
                /\ UNCHANGED nextId

\* app.delete('/api/dramas/:id')
Delete(h) ==
    /\ pc[h] = "loaded"
    /\ req[h].route = "delete"
    /\ Write(h, WithoutId(buf[h], req[h].id), [item |-> NoItem, n |-> Len(buf[h])])
    /\ UNCHANGED nextId

\* app.post('/api/seed')
Seed(h) ==
    /\ pc[h] = "loaded"
    /\ req[h].route = "seed"
    /\ nextId + req[h].count <= MaxIds
    /\ nextId' = nextId + req[h].count
    /\ Write(h, Unshift(Samples(req[h].count, nextId + 1, clock), buf[h]),
             [item |-> NoItem, n |-> req[h].count])

\* the oldest pending write replaces the file; its db.write() resolves
WriteLand ==
    /\ wq # << >>
    /\ file' = Head(wq).cat
    /\ wq' = Tail(wq)
    /\ pc' = [pc EXCEPT ![Head(wq).h] = "written"]
    /\ UNCHANGED <<data, req, resp, buf, loc, clock, nextId>>

\* the response of each writing route, computed after await db.write() from
\* the handler's locals and from db.data as it is by then
Response(r, l, cat) ==
    CASE r.route = "create" -> [NoResp EXCEPT !.status = 201, !.item = l.item]
      [] r.route = "update" ->
            [NoResp EXCEPT !.status = 200,
                           !.item = IF l.n <= Len(cat) THEN cat[l.n] ELSE NoItem]
      [] r.route = "delete" -> [NoResp EXCEPT !.status = 200, !.n = l.n - Len(cat)]
      [] OTHER -> [NoResp EXCEPT !.status = 200, !.n = l.n]

Respond(h) ==
    /\ pc[h] = "written"
    /\ resp' = [resp EXCEPT ![h] = Response(req[h], loc[h], data)]
    /\ pc' = [pc EXCEPT ![h] = "done"]
    /\ loc' = [loc EXCEPT ![h] = NoLoc]
    /\ UNCHANGED <<file, data, req, buf, wq, clock, nextId>>

\* the response has been sent; the slot takes the next request
Close(h) ==
    /\ pc[h] = "done"
    /\ pc' = [pc EXCEPT ![h] = "idle"]
    /\ req' = [req EXCEPT ![h] = NoReq]
    /\ resp' = [resp EXCEPT ![h] = NoResp]
    /\ UNCHANGED <<file, data, buf, loc, wq, clock, nextId>>

\* a response sent is read off the wire before the server's next step
Quiet == \A h \in Handlers : pc[h] # "done"

(***************************************************************************)
(* History, read off the steps.                                            *)
(***************************************************************************)
ObserveOverlap ==
    overlapped' =
        (overlapped \/ \E h \in Handlers, g \in Handlers :
                          /\ h # g
                          /\ pc[h] = "idle"
                          /\ pc'[h] = "reading"
                          /\ InFlight(g))

ObserveAcked ==
    acked' =
        (acked \cup {loc[h].item.id : h \in {g \in Handlers :
                        /\ pc[g] = "written"
                        /\ pc'[g] = "done"
                        /\ req[g].route = "create"}})
        \ {req[h].id : h \in {g \in Handlers :
                        /\ pc[g] = "loaded"
                        /\ pc'[g] = "writing"
                        /\ \/ req[g].route = "delete"
                           \/ req[g].route = "update" /\ Has(req[g].body, "id")}}

ObserveLastDel ==
    lastDel' =
        IF pc[1] = "done" /\ pc'[1] = "idle"
        THEN IF req[1].route = "delete" /\ resp[1].status = 200
             THEN [id |-> req[1].id, n |-> resp[1].n]
             ELSE NoDel
        ELSE lastDel

(***************************************************************************)
(* Spec: two request slots whose handlers interleave at every await.       *)
(***************************************************************************)
Conc(A) ==
    /\ A
    /\ ObserveOverlap
    /\ ObserveAcked
    /\ UNCHANGED <<lastDel, qvars>>

Next ==
    \/ Conc(Quiet /\ \E h \in Handlers : \E r \in ConcRequests : Accept(h, r))
    \/ Conc(Quiet /\ \E h \in Handlers : FileRead(h))
    \/ Conc(Quiet /\ \E h \in Handlers : Detail(h))
    \/ Conc(Quiet /\ \E h \in Handlers : Create(h))
    \/ Conc(Quiet /\ \E h \in Handlers : Delete(h))
    \/ Conc(Quiet /\ WriteLand)
    \/ Conc(Quiet /\ \E h \in Handlers : Respond(h))
    \/ Conc(\E h \in Handlers : Close(h))

Spec == Init /\ [][Next]_vars

(***************************************************************************)
(* SpecSeq: requests are handled one at a time by one slot.                *)
(***************************************************************************)
Serial(A) ==
    /\ A
    /\ ObserveLastDel
    /\ UNCHANGED <<overlapped, acked, qvars>>

NextSeq ==
    \/ Serial(\E r \in TimelessRequests : Reject(1, r))
    \/ Serial(\E r \in TimelessRequests : Accept(1, r))
    \/ Serial(FileRead(1))
    \/ Serial(Detail(1))
    \/ Serial(Create(1))
    \/ Serial(Update(1))
    \/ Serial(Delete(1))
    \/ Serial(Seed(1))
    \/ Serial(WriteLand)
    \/ Serial(Respond(1))
    \/ Serial(Close(1))

SpecSeq == Init /\ [][NextSeq]_vars

(***************************************************************************)
(* SpecTime: one request at a time while the clock advances.               *)
(***************************************************************************)
Timed(A) ==
    /\ A
    /\ UNCHANGED <<overlapped, acked, lastDel, qvars>>

NextTime ==
    \/ Timed(Quiet /\ Tick)
    \/ Timed(\E r \in Requests : Reject(1, r))
    \/ Timed(\E r \in Requests : Accept(1, r))
    \/ Timed(FileRead(1))
    \/ Timed(Detail(1))
    \/ Timed(Create(1))
    \/ Timed(Update(1))
    \/ Timed(Delete(1))
    \/ Timed(Seed(1))
    \/ Timed(WriteLand)
    \/ Timed(Respond(1))
    \/ Timed(Close(1))

SpecTime == Init /\ [][NextTime]_vars

(***************************************************************************)
(* The list handler, app.get('/api/dramas').  The queries carry min_year,  *)
(* max_year, sort, page and limit; search, genre and status are absent, so *)
(* their filters are skipped.  A parameter present is a non-empty string   *)
(* holding the number shown.                                               *)
(***************************************************************************)
Absent == 0 - 1

Opt(k, v) == IF v = Absent THEN EmptyBody ELSE (k :> v)

OptSort(v) == IF v = "" THEN EmptyBody ELSE ("sort" :> v)

\* d.year || dflt
YearOr(d, dflt) == IF Has(d, "year") /\ d.year # 0 THEN d.year ELSE dflt

\* a min_year filter that reads a missing year as 9999
MinYearOkHigh(d, q) == YearOr(d, MissingYearHigh) >= q.min_year

\* (d.year||0) >= Number(min_year)
MinYearOk(d, q) == YearOr(d, MissingYearLow) >= q.min_year

\* (d.year||9999) <= Number(max_year)
MaxYearOk(d, q) == YearOr(d, MissingYearHigh) <= q.max_year

\* the year filters, min_year first
Filtered(cat, q) ==
    LET KeepMin(d) == MinYearOk(d, q)
        KeepMax(d) == MaxYearOk(d, q)
        a == IF Has(q, "min_year") THEN SelectSeq(cat, KeepMin) ELSE cat
    IN  IF Has(q, "max_year") THEN SelectSeq(a, KeepMax) ELSE a

\* String(sort).split(':') on the sort strings the queries carry
SplitSort(s) ==
    CASE s = "updated_at:desc" -> [field |-> "updated_at", dir |-> "desc"]
      [] s = "year:asc"        -> [field |-> "year", dir |-> "asc"]
      [] s = "year:desc"       -> [field |-> "year", dir |-> "desc"]
      [] OTHER                 -> [field |-> s, dir |-> ""]

\* a[field] ?? 0
FieldOr0(d, f) == IF Has(d, f) THEN d[f] ELSE 0

\* the comparator handed to list.sort
Compare(a, b, field, dir) ==
    LET av == FieldOr0(a, field)
        bv == FieldOr0(b, field)
    IN  IF av < bv THEN (IF dir = "desc" THEN 1 ELSE 0 - 1)
        ELSE IF av > bv THEN (IF dir = "desc" THEN 0 - 1 ELSE 1)
        ELSE 0

\* x placed behind every element that does not sort after it
InsertSorted(x, sorted, field, dir) ==
    LET n == Cardinality({i \in 1..Len(sorted) : Compare(sorted[i], x, field, dir) <= 0})
    IN  SubSeq(sorted, 1, n) \o <<x>> \o SubSeq(sorted, n + 1, Len(sorted))

RECURSIVE SortBy(_, _, _)
\* Array.prototype.sort with the comparator: a stable sort
SortBy(list, field, dir) ==
    IF list = << >> THEN << >>
    ELSE InsertSorted(list[Len(list)],
                      SortBy(SubSeq(list, 1, Len(list) - 1), field, dir),
                      field, dir)

\* Array.prototype.slice(start, end), 0-based, negative indexes from the end
Slice(array, start, end) ==
    LET len == Len(array)
        k   == IF start < 0 THEN Max(len + start, 0) ELSE Min(start, len)
        fin == IF end < 0 THEN Max(len + end, 0) ELSE Min(end, len)
    IN  SubSeq(array, k + 1, fin)

\* Math.ceil(a / b) for a >= 0, b >= 1
CeilDiv(a, b) == (a + b - 1) \div b

\* a paginate whose first page starts one page in
PaginateFromZero(array, page, limit) ==
    [items |-> Slice(array, page * limit, page * limit + limit),
     page |-> page, limit |-> limit, total |-> Len(array),
     pages |-> CeilDiv(Len(array), limit)]

\* paginate(array, page, limit)
Paginate(array, page, limit) ==
    LET start == (page - 1) * limit
        end   == start + limit
    IN  [items |-> Slice(array, start, end),
         page |-> page, limit |-> limit, total |-> Len(array),
         pages |-> CeilDiv(Len(array), limit)]

Queries ==
    {Opt("min_year", a) @@ Opt("max_year", b) @@ OptSort(s) @@ Opt("page", p) @@ Opt("limit", l) :
        a \in {Absent, 0, 2000, SeedYear},
        b \in {Absent, 2000, SeedYear, MissingYearHigh},
        s \in {"", "year:asc"},
        p \in {Absent} \cup 0..MaxPage,
        l \in {Absent, 7, DefaultLimit}}

\* snapshots: what a seed leaves, alone or under one created record
QCatalogs ==
    {Samples(n, 1, 0) : n \in 0..MaxTotal}
    \cup {Unshift(<<NewItem(b, n + 1, 1)>>, Samples(n, 1, 0)) :
            n \in 0..MaxTotal, b \in CreateBodies}

QInit ==
    /\ SInit
    /\ qcat \in QCatalogs
    /\ qry = EmptyBody
    /\ qlist = << >>
    /\ qres = NoPage

\* app.get('/api/dramas') on the snapshot qcat; one response is observed
\* before the next query is taken
QList(q) ==
    LET so   == SplitSort(IF Has(q, "sort") THEN q.sort ELSE "updated_at:desc")
        page == IF Has(q, "page") THEN q.page ELSE DefaultPage
        lim  == IF Has(q, "limit") THEN q.limit ELSE DefaultLimit
        list == SortBy(Filtered(qcat, q), so.field, so.dir)
    IN  /\ qres = NoPage
        /\ qry' = q
        /\ qlist' = list
        /\ qres' = Paginate(list, page, lim)
        /\ UNCHANGED <<qcat, file, data, pc, req, resp, buf, loc, wq, clock, nextId,
                       overlapped, acked, lastDel>>

\* the response has gone out
QClose ==
    /\ qres # NoPage
    /\ qry' = EmptyBody
    /\ qlist' = << >>
    /\ qres' = NoPage
    /\ UNCHANGED <<qcat, file, data, pc, req, resp, buf, loc, wq, clock, nextId,
                   overlapped, acked, lastDel>>

NextQuery ==
    \/ \E q \in Queries : QList(q)
    \/ QClose

SpecQuery == QInit /\ [][NextQuery]_vars

(***************************************************************************)
(* The properties.                                                         *)
(***************************************************************************)

\* C1: a request to a protected endpoint (create, update, delete, seed) whose
\* x-api-key header is absent or differs from the configured key is answered
\* 401 with error "Unauthorized", and the persisted catalog, db.data, the
\* queued writes and the handlers' reads are exactly as before the request.
C1_UnauthorizedRejected ==
    [][\A h \in Handlers :
          (/\ pc[h] = "idle"
           /\ pc'[h] # "idle"
           /\ req'[h].route \in Protected
           /\ req'[h].key # API_KEY)
          => /\ pc'[h] = "done"
             /\ resp'[h].status = 401
             /\ resp'[h].error = "Unauthorized"
             /\ file' = file
             /\ data' = data
             /\ wq' = wq
             /\ buf' = buf]_vars

\* a delete of a stored id, sent with a bad key, has been answered 401
C1_Witness ==
    /\ pc[1] = "done"
    /\ req[1].route = "delete"
    /\ req[1].key # API_KEY
    /\ req[1].id \in IdsOf(file)
    /\ resp[1].status = 401

\* C2: no two records of the persisted catalog share an id, and no step
\* changes the id of a record that stays in the catalog.
C2_IdsUniqueAndFixed ==
    [][/\ \A i, j \in 1..Len(file') : file'[i].id = file'[j].id => i = j
       /\ Len(file') = Len(file) => \A i \in 1..Len(file) : file'[i].id = file[i].id]_vars

\* C3: no step changes the created_at of a record that stays in the
\* persisted catalog.
C3_CreatedAtFixed ==
    [][Len(file') = Len(file)
          => \A i \in 1..Len(file) : file'[i].created_at = file[i].created_at]_vars

\* C4: every persisted record has updated_at >= created_at, and the update
\* handler sets the record's updated_at to the time of the update.
C4_UpdatedAtOrder ==
    [][/\ \A i \in 1..Len(file') : file'[i].updated_at >= file'[i].created_at
       /\ \A h \in Handlers :
             (pc[h] = "loaded" /\ pc'[h] = "writing" /\ req[h].route = "update")
             => data'[loc'[h].n].updated_at = clock]_vars

\* C6: the deleted field of every response to a delete is 0 or 1.
C6_DeletedIsZeroOrOne ==
    \A h \in Handlers :
        (pc[h] = "done" /\ req[h].route = "delete" /\ resp[h].status = 200)
        => resp[h].n \in {0, 1}

\* C7: once a delete of id X has completed, a detail request for X that
\* follows it is answered 404 "Not found", also when several records
\* carried the id X.
C7_DeleteThenDetail ==
    (/\ pc[1] = "done"
     /\ req[1].route = "detail"
     /\ lastDel # NoDel
     /\ lastDel.id = req[1].id)
    => /\ resp[1].status = 404
       /\ resp[1].error = "Not found"

\* the delete removed two records with the same id and the detail was answered
C7_Witness ==
    /\ pc[1] = "done"
    /\ req[1].route = "detail"
    /\ lastDel.n = 2
    /\ lastDel.id = req[1].id
    /\ resp[1].status = 404

\* C9: a successful update changes one record only: each payload field
\* replaces the field of that name, updated_at becomes the time of the
\* update, every other field of the record is retained, and every other
\* record and the order of the catalog are unchanged; an update of an id
\* that is not stored is answered 404 and leaves the catalog unchanged.
C9_ShallowMerge ==
    [][/\ (pc[1] = "writing" /\ pc'[1] = "written" /\ req[1].route = "update")
          => LET idx == loc[1].n
                 old == file[idx]
                 new == file'[idx]
                 body == req[1].body
             IN  /\ Len(file') = Len(file)
                 /\ old.id = req[1].id
                 /\ \A i \in 1..Len(file) : i # idx => file'[i] = file[i]
                 /\ DOMAIN new = DOMAIN old \cup DOMAIN body
                 /\ new.updated_at = clock
                 /\ \A k \in DOMAIN body \ {"updated_at"} : new[k] = body[k]
                 /\ \A k \in DOMAIN old \ (DOMAIN body \cup {"updated_at"}) : new[k] = old[k]
       /\ (pc[1] = "loaded" /\ req[1].route = "update" /\ req[1].id \notin IdsOf(buf[1]))
          => /\ pc'[1] = "done"
             /\ resp'[1].status = 404
             /\ file' = file
             /\ wq' = wq]_vars

\* the second record of two took year 2021 and kept its title
C9_Witness ==
    /\ pc[1] = "written"
    /\ req[1].route = "update"
    /\ req[1].body = ("year" :> 2021)
    /\ Len(file) = 2
    /\ loc[1].n = 2
    /\ file[2].year = 2021
    /\ file[2].title = "A"

\* C10: while no two requests have been in flight together, every record
\* whose create was answered 201 and that no later request removed or
\* renamed is in the persisted catalog.
C10_SerialCreatesPersist ==
    ~overlapped => acked \subseteq IdsOf(file)

\* C10: with two creates in flight together a state is reached where both
\* were answered 201, nothing is pending, and one of the records is not in
\* the persisted catalog.
C10_LostUpdate ==
    /\ overlapped
    /\ wq = << >>
    /\ \A h \in Handlers : pc[h] = "idle"
    /\ acked = {1, 2}
    /\ Len(file) = 1

\* serial creates: two were answered one after the other and both are stored
C10_Witness ==
    /\ ~overlapped
    /\ acked = {1, 2}
    /\ wq = << >>
    /\ Len(file) = 2

\* C5: a record with no year is in the list when the only filter is
\* min_year=2000 and is not in the list when the only filter is
\* max_year=2000; a record with no year is compared as 0 against min_year
\* and as 9999 against max_year, both bounds inclusive.
C5_MissingYearAsymmetry ==
    qres # NoPage =>
        LET onlyMin == Has(qry, "min_year") /\ ~Has(qry, "max_year")
            onlyMax == Has(qry, "max_year") /\ ~Has(qry, "min_year")
            yearless == {i \in 1..Len(qcat) : ~Has(qcat[i], "year")}
            YearAs(i, dflt) == IF i \in yearless THEN dflt ELSE qcat[i].year
        IN  /\ (onlyMin /\ qry.min_year = 2000)
               => \A i \in yearless : qcat[i] \in Range(qlist)
            /\ (onlyMax /\ qry.max_year = 2000)
               => \A i \in yearless : qcat[i] \notin Range(qlist)
            /\ onlyMin => Range(qlist) = {qcat[i] : i \in {j \in 1..Len(qcat) : YearAs(j, 0) >= qry.min_year}}
            /\ onlyMax => Range(qlist) = {qcat[i] : i \in {j \in 1..Len(qcat) : YearAs(j, 9999) <= qry.max_year}}

\* C5, as the code has it: a record with no year is in the list neither
\* when the only filter is min_year=2000 nor when the only filter is
\* max_year=2000; it is compared as 0 against min_year and as 9999 against
\* max_year, both bounds inclusive.
C5_MissingYearExcluded ==
    qres # NoPage =>
        LET onlyMin == Has(qry, "min_year") /\ ~Has(qry, "max_year")
            onlyMax == Has(qry, "max_year") /\ ~Has(qry, "min_year")
            yearless == {i \in 1..Len(qcat) : ~Has(qcat[i], "year")}
            YearAs(i, dflt) == IF i \in yearless THEN dflt ELSE qcat[i].year
        IN  /\ (onlyMin /\ qry.min_year = 2000)
               => \A i \in yearless : qcat[i] \notin Range(qlist)
            /\ (onlyMax /\ qry.max_year = 2000)
               => \A i \in yearless : qcat[i] \notin Range(qlist)
            /\ onlyMin => Range(qlist) = {qcat[i] : i \in {j \in 1..Len(qcat) : YearAs(j, 0) >= qry.min_year}}
            /\ onlyMax => Range(qlist) = {qcat[i] : i \in {j \in 1..Len(qcat) : YearAs(j, 9999) <= qry.max_year}}

\* min_year=2000 alone: the record with no year is left out, the seeded
\* records of 2024 are kept
C5_Witness ==
    /\ qres # NoPage
    /\ Has(qry, "min_year")
    /\ ~Has(qry, "max_year")
    /\ qry.min_year = 2000
    /\ Len(qcat) = 3
    /\ ~Has(qcat[1], "year")
    /\ qcat[1] \notin Range(qlist)
    /\ Len(qlist) = 2

\* C8: for page >= 1 and limit >= 1 the response's items are the records
\* of the filtered, sorted list at positions (page-1)*limit+1 to
\* min(page*limit, total), total is the length of that list and pages is
\* ceil(total / limit); 30 records with limit 24 give pages = 2, 24 items
\* on page 1, 6 on page 2 and none from page 3 on.
C8_Pagination ==
    (qres # NoPage /\ qres.page >= 1 /\ qres.limit >= 1) =>
        LET page  == qres.page
            limit == qres.limit
            total == Len(qlist)
            lo    == (page - 1) * limit
            hi    == Min(page * limit, total)
        IN  /\ page = (IF Has(qry, "page") THEN qry.page ELSE 1)
            /\ limit = (IF Has(qry, "limit") THEN qry.limit ELSE 24)
            /\ qres.total = total
            /\ Len(qres.items) = Max(hi - lo, 0)
            /\ \A i \in 1..Len(qres.items) : qres.items[i] = qlist[lo + i]
            /\ qres.pages * limit >= total
            /\ (qres.pages - 1) * limit < total
            /\ (total = 30 /\ limit = 24)
               => /\ qres.pages = 2
                  /\ page = 1 => Len(qres.items) = 24
                  /\ page = 2 => Len(qres.items) = 6
                  /\ page >= 3 => Len(qres.items) = 0

\* page 2 of 30 records at the default limit holds the last 6
C8_Witness ==
    /\ qres.total = 30
    /\ ~Has(qry, "limit")
    /\ qres.limit = 24
    /\ qres.page = 2
    /\ Len(qres.items) = 6
    /\ qres.items[6] = qlist[30]
    /\ qres.pages = 2

=============================================================================
